---- MODULE Spec2Model ----
(***************************************************************************)
(* SolScout: a poller that fetches Solana pairs from DEX Screener, alerts  *)
(* a Telegram chat about young high-volume pairs and keeps the names it    *)
(* alerted in alerted_coins.json.                                          *)
(*                                                                         *)
(* Two programs share the file format and the filter:                      *)
(*   src/application.py  the asyncio poller (specification Spec, FairSpec  *)
(*                       for liveness, SpecSeen with the pair of each      *)
(*                       iteration kept) beside the HTTP handlers          *)
(*                       (specification SpecHttp);                         *)
(*   src/bot.py          the one-shot script (specification SpecBot).      *)
(*                                                                         *)
(* The response's pair list is an input.  Its length is fixed when the     *)
(* fetch returns; its elements are drawn one by one as the for loop        *)
(* reaches them, which yields the same behaviours as drawing the whole     *)
(* list at the fetch, since the loop reads every element exactly once.     *)
(***************************************************************************)
EXTENDS Integers, Sequences, FiniteSets, TLC

\* ------------------------------------------------------------- bounds
\* Most pairs in one response.
MaxBatch == 2
\* The count of dispatches per name, kept over all cycles, saturates here.
MaxCount == 2
\* The coin names the data source may report.
Names == {"A", "B"}

\* ------------------------------------------------- program constants
\* if age_in_minutes <= 60 ...
MaxAgeMinutes == 60
\* ... and volume > 500000 ...
MinVolume == 500000
\* total_seconds() / 60, on timestamps kept here in milliseconds
MsPerMinute == 60000
\* volumes are kept in cents, so that 500000.01 is a value
CentsPerUsd == 100
\* A reading of datetime.now(timezone.utc), in milliseconds (kept small:
\* only differences of timestamps are ever used).
BaseTimeMs == 10000000

\* pair["baseToken"]["name"] of a pair that has no base token or no name
NoName == "<missing>"
\* the name field of an event that concerns no coin
NoCoin == "-"

Clock == {BaseTimeMs, BaseTimeMs + 15 * MsPerMinute}

VolumesCents ==
    { MinVolume * CentsPerUsd, MinVolume * CentsPerUsd + 1, 600000 * CentsPerUsd }

\* pairCreatedAt as the source may report it at time now: absent/null/0, ten
\* minutes old, exactly 60 minutes old, one millisecond older, in the future.
CreatedAt(now) ==
    { 0,
      now - 10 * MsPerMinute,
      now - MaxAgeMinutes * MsPerMinute,
      now - MaxAgeMinutes * MsPerMinute - 1,
      now + MsPerMinute }

\* The pair objects of a response.  volKind: "number" (volume.h24 holds
\* h24), "absent" (no volume or no h24 key: the default 0 is used), "null"
\* (volume or h24 is null).
Pairs(now) ==
    { p \in [ chainId : {"solana", "ethereum"},
              name : Names \cup {NoName},
              volKind : {"number", "absent", "null"},
              h24 : VolumesCents \cup {0},
              pairCreatedAt : CreatedAt(now) ] :
        (p.volKind = "number") <=> (p.h24 # 0) }

VARIABLES
    pc,            \* where the poller (or the script) is
    file,          \* alerted_coins.json
    alerted,       \* check_new_coins' local alerted_coins
    remaining,     \* pairs of data["pairs"] the for loop has not reached
    current_time,  \* check_new_coins' local current_time
    sending,       \* the name whose send_alert the task is awaiting, or NoCoin
    handler,       \* the HTTP request being served, or "none"
    workers,       \* the execution contexts inside check_new_coins
    last,          \* the most recent step of the poller: [ev, name]
    dispatches,    \* history: send_alert calls per name, ever
    cycleSends,    \* history: send_alert calls per name, this cycle
    delivered,     \* history: names whose bot.send_message returned
    loaded,        \* history: what load_alerted_coins returned this cycle
    qual,          \* history: per name, pairs of this cycle passing the
                   \* network, timestamp, age and volume checks
    notifyFailed,  \* history: names whose bot.send_message raised, this cycle
    everSaved,     \* history: names a save_alerted_coins call has written
    lost,          \* history: names dispatched in a cycle that did not save
    seen,          \* history: the pair the latest iteration of the for
                   \* loop evaluated, NoPair outside the loop
    track          \* whether seen is kept (it never changes)

cycleVars == <<alerted, remaining, current_time, sending>>
histVars == <<dispatches, cycleSends, delivered, loaded, qual, notifyFailed,
              everSaved, lost>>
vars == <<pc, file, alerted, remaining, current_time, sending, handler, workers,
          last,
          dispatches, cycleSends, delivered, loaded, qual, notifyFailed,
          everSaved, lost, seen, track>>

\* No pair: the value of seen when the loop has read none.
NoPair ==
    [chainId |-> "-", name |-> NoCoin, volKind |-> "absent", h24 |-> 0,
     pairCreatedAt |-> 0]

Zero == [n \in Names |-> 0]
Bump(f, n) == [f EXCEPT ![n] = IF @ < MaxCount THEN @ + 1 ELSE @]
Inc(f, n) == [f EXCEPT ![n] = @ + 1]
Event(e, n) == [ev |-> e, name |-> n]

\* ------------------------------------------------------ the ledger file
\* A character is a string: an ASCII character stands for itself, a
\* character outside ASCII is written by its code point.
NonAscii == {"U+00E9"}
\* The four hexadecimal digits json.dump writes for a character outside
\* ASCII (ensure_ascii is on by default).
HexDigits(c) == CASE c = "U+00E9" -> <<"0", "0", "e", "9">>

\* The characters of the coin names: one with a quotation mark, one with a
\* backslash and a letter outside ASCII.
Spelling(n) ==
    CASE n = "A" -> <<"A", "\"">>
      [] n = "B" -> <<"B", "\\", "U+00E9">>
\* The name spelled cs, NoName when cs spells none of the names.
NameOf(cs) ==
    IF \E n \in Names : Spelling(n) = cs
    THEN CHOOSE n \in Names : Spelling(n) = cs
    ELSE NoName

\* json.dump's encoding of one character of a string.
EncodeCharRaw(c) == <<c>>
EncodeChar(c) ==
    CASE c = "\"" -> <<"\\", "\"">>
      [] c = "\\" -> <<"\\", "\\">>
      [] c \in NonAscii -> <<"\\", "u">> \o HexDigits(c)
      [] OTHER -> <<c>>

RECURSIVE EncodeChars(_)
EncodeChars(cs) ==
    IF cs = <<>> THEN <<>>
    ELSE EncodeChar(Head(cs)) \o EncodeChars(Tail(cs))

\* json.dump of a string: the encoded characters between quotation marks.
Encode(cs) == <<"\"">> \o EncodeChars(cs) \o <<"\"">>

\* list(alerted_coins): the elements of the set, each once, in the order
\* the set yields them (any order).
Lists(S) ==
    { l \in [1..Cardinality(S) -> S] : \A x \in S : \E i \in DOMAIN l : l[i] = x }

\* json.dump(list, file): the array's elements, each an encoded string.
Dump(l) == [i \in DOMAIN l |-> Encode(Spelling(l[i]))]

\* What scanning a string literal gives: whether it is one, and its
\* characters.
NoString == [ok |-> FALSE, chars |-> <<>>]

\* json.load's scan of a string literal t from position i, after the
\* opening quotation mark, with the characters acc read so far.
RECURSIVE Scan(_, _, _)
Scan(t, i, acc) ==
    IF i > Len(t) THEN NoString
    ELSE IF t[i] = "\"" THEN [ok |-> i = Len(t), chars |-> acc]
    ELSE IF t[i] # "\\" THEN Scan(t, i + 1, Append(acc, t[i]))
    ELSE IF i + 1 > Len(t) THEN NoString
    ELSE IF t[i + 1] \in {"\"", "\\"} THEN Scan(t, i + 2, Append(acc, t[i + 1]))
    ELSE IF t[i + 1] = "u" /\ i + 5 <= Len(t)
              /\ \E c \in NonAscii : HexDigits(c) = SubSeq(t, i + 2, i + 5)
         THEN Scan(t, i + 6,
                   Append(acc, CHOOSE c \in NonAscii :
                                   HexDigits(c) = SubSeq(t, i + 2, i + 5)))
    ELSE NoString

\* json.load of one element of the array.
Parse(t) ==
    IF Len(t) >= 2 /\ t[1] = "\"" THEN Scan(t, 2, <<>>) ELSE NoString

\* alerted_coins.json: absent, empty (no JSON document), or a JSON array
\* whose elements are items.
NoFile == [kind |-> "absent", items |-> <<>>]
CorruptFile == [kind |-> "corrupt", items |-> <<>>]
JsonFile(items) == [kind |-> "json", items |-> items]

\* load_alerted_coins: json.load raises on a file that is no JSON document.
LoadRaises(f) ==
    \/ f.kind = "corrupt"
    \/ /\ f.kind = "json"
       /\ \E i \in DOMAIN f.items : ~Parse(f.items[i]).ok
\* if os.path.exists(...): return set(json.load(file)); return set()
load_alerted_coinsIgnoresFile(f) == {}
load_alerted_coins(f) ==
    IF f.kind = "json"
    THEN { NameOf(Parse(f.items[i]).chars) : i \in DOMAIN f.items }
    ELSE {}

\* The names the file holds, for a reader that can parse it.
Persisted == IF LoadRaises(file) THEN {} ELSE load_alerted_coins(file)

\* save_alerted_coins: open(..., "w") then json.dump of l, which is
\* list(alerted_coins).  "ok": the array is written.  "open_fails": open
\* raises, the file is as it was.  "write_fails": open has truncated the
\* file and the write raises.
SaveOutcomes == {"ok", "open_fails", "write_fails"}
save_alerted_coins(f, l, outcome) ==
    CASE outcome = "ok" -> JsonFile(Dump(l))
      [] outcome = "open_fails" -> f
      [] OTHER -> CorruptFile

\* ----------------------------------------------------------- the filter
\* pair.get("chainId") != "solana": continue
OnTargetChain(p) == p.chainId = "solana"
\* pair["baseToken"]["name"] raises KeyError; float(None) raises TypeError
\* (None.get raises AttributeError when the volume object is null)
ExtractRaises(p) == p.name = NoName \/ p.volKind = "null"
\* float(pair.get("volume", {}).get("h24", 0)), in cents
Volume(p) == IF p.volKind = "number" THEN p.h24 ELSE 0
\* if not creation_timestamp: continue
HasTimestampAlways(p) == TRUE
HasTimestamp(p) == p.pairCreatedAt # 0
\* age_in_minutes <= 60, as (now - created) ms <= 60 min in ms
AgeOkExclusive(p, now) == now - p.pairCreatedAt < MaxAgeMinutes * MsPerMinute
AgeOk(p, now) == now - p.pairCreatedAt <= MaxAgeMinutes * MsPerMinute
\* volume > 500000
VolumeOkInclusive(p) == Volume(p) >= MinVolume * CentsPerUsd
VolumeOk(p) == Volume(p) > MinVolume * CentsPerUsd
\* the numeric part of the condition of the if
NumericOk(p, now) == AgeOk(p, now) /\ VolumeOk(p)
\* coin_name not in alerted_coins
NotAlerted(p, a) == p.name \notin a
SelectedIgnoresLedger(p, now, a) == NumericOk(p, now)
Selected(p, now, a) == NumericOk(p, now) /\ NotAlerted(p, a)

\* What an iteration leaves in seen: the pair, when the iteration got past
\* the chainId test and read its fields without raising.
Read(p) ==
    IF track /\ OnTargetChain(p) /\ ~ExtractRaises(p) THEN p ELSE NoPair

\* alerted_coins after send_alert(coin_name, ...) returned or raised, in
\* application.py: send_alert catches every exception of bot.send_message,
\* so alerted_coins.add(coin_name) runs whether or not the message went out.
AlertedAfterSendKeepsOld(a, n, ok) == a
AlertedAfterSend(a, n, ok) == a \cup {n}

\* ----------------------------------------------------- run_bot_periodically
\* Where the poller is after an exception left check_new_coins: the
\* except Exception of the while loop logs it, then asyncio.sleep(900).
AfterExceptionUncaught == "stopped"
AfterException == "sleep"

\* alerted_coins.json after the fetch raised: the except branch only logs.
FileAfterFetchErrorSaved(f, a) == JsonFile(Dump(CHOOSE l \in Lists(a) : TRUE))
FileAfterFetchError(f, a) == f

\* The exceptions the fetch (requests.get, raise_for_status, response.json,
\* data.get("pairs", [])) can end with: a requests.RequestException, caught
\* inside check_new_coins, or another exception, which leaves it.
FetchErrors == {"request_exception", "other_exception"}

\* The names dispatched in the cycle in progress.
SentThisCycle == {n \in Names : cycleSends[n] > 0}

\* --------------------------------------------------------- HTTP handlers
Handlers == {"home", "test", "botinfo"}
\* What each handler calls.
HandlerCallsAlert(h) ==
    CASE h = "test" -> {"send_alert"}
      [] h = "botinfo" -> {"bot.get_me", "bot.get_chat"}
      [] OTHER -> {}
HandlerCalls(h) ==
    CASE h = "test" -> {"bot.send_message"}
      [] h = "botinfo" -> {"bot.get_me", "bot.get_chat"}
      [] OTHER -> {}
\* The calls that belong to a cycle: the ledger, the filter, the notifier.
CoreCalls ==
    {"check_new_coins", "load_alerted_coins", "save_alerted_coins", "send_alert"}

Init ==
    /\ pc = "boot"
    /\ file = NoFile
    /\ alerted = {}
    /\ remaining = 0
    /\ current_time = BaseTimeMs
    /\ sending = NoCoin
    /\ handler = "none"
    /\ workers = {}
    /\ last = Event("none", NoCoin)
    /\ dispatches = Zero
    /\ cycleSends = Zero
    /\ delivered = {}
    /\ loaded = {}
    /\ qual = Zero
    /\ notifyFailed = {}
    /\ everSaved = {}
    /\ lost = {}
    /\ seen = NoPair
    /\ track = FALSE

BootFailIgnored ==
    /\ pc = "boot"
    /\ pc' = "cycle"
    /\ workers' = workers \cup {"task"}
    /\ last' = Event("boot_failed", NoCoin)
    /\ UNCHANGED <<file, handler>>
    /\ UNCHANGED cycleVars
    /\ UNCHANGED histVars
    /\ UNCHANGED <<seen, track>>

\* if not await test_bot_connection(): return
BootFail ==
    /\ pc = "boot"
    /\ pc' = "stopped"
    /\ last' = Event("boot_failed", NoCoin)
    /\ UNCHANGED <<file, handler, workers>>
    /\ UNCHANGED cycleVars
    /\ UNCHANGED histVars
    /\ UNCHANGED <<seen, track>>

\* test_bot_connection returned True: the while loop calls check_new_coins.
BootOk ==
    /\ pc = "boot"
    /\ pc' = "cycle"
    /\ workers' = workers \cup {"task"}
    /\ last' = Event("started", NoCoin)
    /\ UNCHANGED <<file, handler>>
    /\ UNCHANGED cycleVars
    /\ UNCHANGED histVars
    /\ UNCHANGED <<seen, track>>

\* asyncio.sleep(900) returns and the while loop calls check_new_coins.
Wake ==
    /\ pc = "sleep"
    /\ pc' = "cycle"
    /\ workers' = workers \cup {"task"}
    /\ last' = Event("started", NoCoin)
    /\ UNCHANGED <<file, handler>>
    /\ UNCHANGED cycleVars
    /\ UNCHANGED histVars
    /\ UNCHANGED <<seen, track>>

\* The history of a cycle that begins.
ResetCycleHistory(l) ==
    /\ cycleSends' = Zero
    /\ qual' = Zero
    /\ notifyFailed' = {}
    /\ loaded' = l
    /\ seen' = NoPair
    /\ UNCHANGED <<dispatches, delivered, everSaved, lost, track>>

\* load_alerted_coins raises (json.load on a file that is no JSON): the
\* call is outside the try of check_new_coins.
LoadFailsAt(from, to) ==
    /\ pc = from
    /\ LoadRaises(file)
    /\ pc' = to
    /\ workers' = workers \ {"task"}
    /\ last' = Event("load_error", NoCoin)
    /\ alerted' = {}
    /\ remaining' = 0
    /\ ResetCycleHistory({})
    /\ UNCHANGED <<file, current_time, sending, handler>>

\* The ledger is read, then the fetch raises.
FetchFailsAt(from, caught, uncaught) ==
    /\ pc = from
    /\ ~LoadRaises(file)
    /\ \E e \in FetchErrors :
         pc' = IF e = "request_exception" THEN caught ELSE uncaught
    /\ file' = FileAfterFetchError(file, load_alerted_coins(file))
    /\ workers' = workers \ {"task"}
    /\ last' = Event("fetch_error", NoCoin)
    /\ alerted' = {}
    /\ remaining' = 0
    /\ ResetCycleHistory(load_alerted_coins(file))
    /\ UNCHANGED <<current_time, sending, handler>>

\* The ledger is read and the fetch returns a document with n pairs.
FetchOkAt(from) ==
    /\ pc = from
    /\ ~LoadRaises(file)
    /\ \E n \in 0..MaxBatch, now \in Clock :
         /\ remaining' = n
         /\ current_time' = now
    /\ alerted' = load_alerted_coins(file)
    /\ pc' = "loop"
    /\ last' = Event("fetched", NoCoin)
    /\ ResetCycleHistory(load_alerted_coins(file))
    /\ UNCHANGED <<file, sending, handler, workers>>

\* Why the loop passes over pair p without alerting.
SkipReason(p, now, a) ==
    CASE ~OnTargetChain(p) -> "skip_chain"
      [] ~HasTimestamp(p) -> "skip_no_timestamp"
      [] ~NumericOk(p, now) -> "skip_filter"
      [] OTHER -> "skip_alerted"

\* One iteration of the for loop that ends in continue or in a false if.
SkipPair ==
    /\ pc = "loop"
    /\ sending = NoCoin
    /\ remaining > 0
    /\ \E p \in Pairs(current_time) :
         /\ \/ ~OnTargetChain(p)
            \/ /\ ~ExtractRaises(p)
               /\ ~(HasTimestamp(p) /\ Selected(p, current_time, alerted))
         /\ last' = Event(SkipReason(p, current_time, alerted),
                          IF OnTargetChain(p) THEN p.name ELSE NoCoin)
         /\ seen' = Read(p)
         /\ qual' = IF OnTargetChain(p) /\ HasTimestamp(p)
                       /\ NumericOk(p, current_time)
                    THEN Inc(qual, p.name) ELSE qual
    /\ remaining' = remaining - 1
    /\ UNCHANGED <<pc, file, alerted, current_time, sending, handler, workers>>
    /\ UNCHANGED <<dispatches, cycleSends, delivered, loaded, notifyFailed,
                   everSaved, lost, track>>

\* One iteration that raises while reading the pair's fields: the
\* exception leaves check_new_coins before save_alerted_coins.
PairRaisesTo(to) ==
    /\ pc = "loop"
    /\ sending = NoCoin
    /\ remaining > 0
    /\ \E p \in Pairs(current_time) :
         /\ OnTargetChain(p)
         /\ ExtractRaises(p)
         /\ seen' = Read(p)
    /\ pc' = to
    /\ workers' = workers \ {"task"}
    /\ last' = Event("pair_error", NoCoin)
    /\ remaining' = remaining - 1
    /\ alerted' = {}
    /\ lost' = lost \cup SentThisCycle
    /\ UNCHANGED <<file, current_time, sending, handler>>
    /\ UNCHANGED <<dispatches, cycleSends, delivered, loaded, qual,
                   notifyFailed, everSaved, track>>

\* An iteration whose if is true, in application.py, up to its await:
\* send_alert(coin_name, ...) is called and bot.send_message is awaited.
\* The task is suspended there with alerted_coins.add still to run, and
\* the event loop may serve requests meanwhile.
AlertBegin ==
    /\ pc = "loop"
    /\ sending = NoCoin
    /\ remaining > 0
    /\ \E p \in Pairs(current_time) :
         /\ OnTargetChain(p)
         /\ ~ExtractRaises(p)
         /\ HasTimestamp(p)
         /\ Selected(p, current_time, alerted)
         /\ sending' = p.name
         /\ dispatches' = Bump(dispatches, p.name)
         /\ cycleSends' = Inc(cycleSends, p.name)
         /\ seen' = Read(p)
    /\ UNCHANGED <<pc, file, alerted, remaining, current_time, handler,
                   workers, last>>
    /\ UNCHANGED <<delivered, loaded, qual, notifyFailed, everSaved, lost,
                   track>>

\* The rest of that iteration: bot.send_message returns (ok) or raises
\* (~ok, logged inside send_alert), send_alert returns and the name is
\* added to alerted_coins.
AlertEnd ==
    /\ pc = "loop"
    /\ sending # NoCoin
    /\ \E ok \in BOOLEAN :
         /\ delivered' = IF ok THEN delivered \cup {sending} ELSE delivered
         /\ notifyFailed' =
                IF ok THEN notifyFailed ELSE notifyFailed \cup {sending}
         /\ alerted' = AlertedAfterSend(alerted, sending, ok)
         /\ last' = Event(IF ok THEN "sent" ELSE "notify_error", sending)
    /\ qual' = Inc(qual, sending)
    /\ sending' = NoCoin
    /\ remaining' = remaining - 1
    /\ UNCHANGED <<pc, file, current_time, handler, workers>>
    /\ UNCHANGED <<dispatches, cycleSends, loaded, everSaved, lost, seen,
                   track>>

\* save_alerted_coins(alerted_coins) after the loop.
SaveTo(done, failed) ==
    /\ pc = "loop"
    /\ sending = NoCoin
    /\ remaining = 0
    /\ \E o \in SaveOutcomes, l \in Lists(alerted) :
         /\ file' = save_alerted_coins(file, l, o)
         /\ pc' = IF o = "ok" THEN done ELSE failed
         /\ last' = Event(IF o = "ok" THEN "saved" ELSE "save_error", NoCoin)
         /\ everSaved' = IF o = "ok" THEN everSaved \cup alerted ELSE everSaved
         /\ lost' = IF o = "ok" THEN lost ELSE lost \cup SentThisCycle
    /\ workers' = workers \ {"task"}
    /\ alerted' = {}
    /\ seen' = NoPair
    /\ UNCHANGED <<remaining, current_time, sending, handler>>
    /\ UNCHANGED <<dispatches, cycleSends, delivered, loaded, qual,
                   notifyFailed, track>>

LoadFails == LoadFailsAt("cycle", AfterException)
FetchFails == FetchFailsAt("cycle", "sleep", AfterException)
FetchOk == FetchOkAt("cycle")
PairRaises == PairRaisesTo(AfterException)
Save == SaveTo("sleep", AfterException)

\* A request arrives: the handler runs to its first await.  The task may
\* be suspended in the await of send_alert at that moment (sending # NoCoin).
HttpBegin ==
    /\ handler = "none"
    /\ \E h \in Handlers :
         /\ handler' = h
         /\ workers' = IF "check_new_coins" \in HandlerCalls(h)
                       THEN workers \cup {"http"} ELSE workers
    /\ UNCHANGED <<pc, file, last>>
    /\ UNCHANGED cycleVars
    /\ UNCHANGED histVars
    /\ UNCHANGED <<seen, track>>

\* The handler returns its response.
HttpEnd ==
    /\ handler # "none"
    /\ handler' = "none"
    /\ workers' = workers \ {"http"}
    /\ UNCHANGED <<pc, file, last>>
    /\ UNCHANGED cycleVars
    /\ UNCHANGED histVars
    /\ UNCHANGED <<seen, track>>

Next ==
    \/ BootFail
    \/ BootOk
    \/ Wake
    \/ LoadFails
    \/ FetchFails
    \/ FetchOk
    \/ SkipPair
    \/ PairRaises
    \/ AlertBegin
    \/ AlertEnd
    \/ Save

\* run_bot_periodically, the one task __main__ creates.  The handlers
\* read and write none of its variables (C9, checked under SpecHttp), so
\* the claims about the cycle are checked on the task alone.
Spec == Init /\ [][Next]_vars

\* The event loop runs the task whenever it can take a step, and every
\* awaited call returns or raises.
FairSpec == Spec /\ WF_vars(Next)

\* The same task with the pair of each iteration kept in seen, for the
\* claims about what the filter does with one pair.
InitSeen ==
    /\ pc = "boot"
    /\ file = NoFile
    /\ alerted = {}
    /\ remaining = 0
    /\ current_time = BaseTimeMs
    /\ sending = NoCoin
    /\ handler = "none"
    /\ workers = {}
    /\ last = Event("none", NoCoin)
    /\ dispatches = Zero
    /\ cycleSends = Zero
    /\ delivered = {}
    /\ loaded = {}
    /\ qual = Zero
    /\ notifyFailed = {}
    /\ everSaved = {}
    /\ lost = {}
    /\ seen = NoPair
    /\ track = TRUE

SpecSeen == InitSeen /\ [][Next]_vars

\* The task beside the HTTP handlers.
NextHttp ==
    \/ Next
    \/ HttpBegin
    \/ HttpEnd

SpecHttp == Init /\ [][NextHttp]_vars

\* ------------------------------------------------------------- src/bot.py
\* The script: one check_new_coins per run of the process.  Nothing catches
\* an exception that leaves check_new_coins: the process ends with it.
InitBot ==
    /\ pc = "main"
    /\ file = NoFile
    /\ alerted = {}
    /\ remaining = 0
    /\ current_time = BaseTimeMs
    /\ sending = NoCoin
    /\ handler = "none"
    /\ workers = {}
    /\ last = Event("none", NoCoin)
    /\ dispatches = Zero
    /\ cycleSends = Zero
    /\ delivered = {}
    /\ loaded = {}
    /\ qual = Zero
    /\ notifyFailed = {}
    /\ everSaved = {}
    /\ lost = {}
    /\ seen = NoPair
    /\ track = FALSE

BotLoadFails == LoadFailsAt("main", "exit")
BotFetchFails == FetchFailsAt("main", "exit", "exit")
BotFetchOk == FetchOkAt("main")
BotPairRaises == PairRaisesTo("exit")
BotSave == SaveTo("exit", "exit")

\* One iteration whose if is true, in bot.py: send_alert has no try, so
\* bot.send_message returns and the name is added, or it raises and the
\* exception leaves check_new_coins before the add and before the save.
BotAlertPair ==
    /\ pc = "loop"
    /\ sending = NoCoin
    /\ remaining > 0
    /\ \E p \in Pairs(current_time), ok \in BOOLEAN :
         /\ OnTargetChain(p)
         /\ ~ExtractRaises(p)
         /\ HasTimestamp(p)
         /\ Selected(p, current_time, alerted)
         /\ dispatches' = Bump(dispatches, p.name)
         /\ cycleSends' = Inc(cycleSends, p.name)
         /\ qual' = Inc(qual, p.name)
         /\ delivered' = IF ok THEN delivered \cup {p.name} ELSE delivered
         /\ notifyFailed' =
                IF ok THEN notifyFailed ELSE notifyFailed \cup {p.name}
         /\ alerted' = IF ok THEN alerted \cup {p.name} ELSE {}
         /\ pc' = IF ok THEN "loop" ELSE "exit"
         /\ lost' = IF ok THEN lost ELSE lost \cup SentThisCycle \cup {p.name}
         /\ last' = Event(IF ok THEN "sent" ELSE "notify_error", p.name)
         /\ seen' = Read(p)
    /\ remaining' = remaining - 1
    /\ UNCHANGED <<file, current_time, sending, handler, workers>>
    /\ UNCHANGED <<loaded, everSaved, track>>

\* The script is run again.
BotRun ==
    /\ pc = "exit"
    /\ pc' = "main"
    /\ last' = Event("started", NoCoin)
    /\ UNCHANGED <<file, handler, workers>>
    /\ UNCHANGED cycleVars
    /\ UNCHANGED histVars
    /\ UNCHANGED <<seen, track>>

NextBot ==
    \/ BotLoadFails
    \/ BotFetchFails
    \/ BotFetchOk
    \/ SkipPair
    \/ BotPairRaises
    \/ BotAlertPair
    \/ BotSave
    \/ BotRun

SpecBot == InitBot /\ [][NextBot]_vars

\* ================================================================ claims

\* C1 (as stated): over any sequence of poll cycles, failing ones included,
\* send_alert is dispatched at most once per coin name.
C1_AtMostOneDispatchEver == \A n \in Names : dispatches[n] <= 1

\* C1 (amended): within one cycle send_alert is dispatched at most once per
\* coin name, and a name is dispatched in a second cycle only if a cycle
\* that dispatched it ended without a successful save_alerted_coins.
C1_OneDispatchUnlessCycleLost ==
    \A n \in Names :
        /\ cycleSends[n] <= 1
        /\ dispatches[n] >= 2 => n \in lost

\* C1 witness: a name dispatched again after a cycle that did not save.
C1_Witness ==
    \E n \in Names : dispatches[n] = 2 /\ cycleSends[n] = 1 /\ n \in lost

\* C2: the in-memory ledger and alerted_coins.json hold a name only if a
\* bot.send_message for that name has succeeded.
C2_LedgerOnlyDelivered == alerted \subseteq delivered /\ Persisted \subseteq delivered

\* C3: a name whose notification failed in a cycle is absent from the
\* ledger after that cycle (so that the next cycle attempts it again).
C3_FailedAbsentAfterCycle ==
    pc = "sleep" => notifyFailed \cap Persisted = {}

\* C4: a step in which the notify call of a selected pair fails leaves the
\* cycle in its for loop, where the remaining pairs are evaluated.
C4_NotifyFailureContinues ==
    [][(notifyFailed' # notifyFailed /\ notifyFailed' # {}) => pc' = "loop"]_vars

\* C5: a cycle whose fetch fails makes no notify call and leaves
\* alerted_coins.json as it was (no save_alerted_coins call).
C5_FetchFailureTouchesNothing ==
    [][(last'.ev = "fetch_error" /\ last' # last) =>
          /\ file' = file
          /\ dispatches' = dispatches
          /\ delivered' = delivered
          /\ cycleSends' = Zero
          /\ everSaved' = everSaved]_vars

\* C5 witness: a fetch has failed over a ledger that holds names.
C5_Witness == last.ev = "fetch_error" /\ Persisted # {} /\ Persisted = loaded

\* C6: a name that passes the network, timestamp, age and volume checks
\* two or more times in one batch gets exactly one notify call in that
\* cycle (none when the ledger already held it at the start of the cycle).
C6_WithinBatchDedup ==
    \A n \in Names :
        qual[n] >= 2 => cycleSends[n] = IF n \in loaded THEN 0 ELSE 1

\* C6 witness: a name qualified twice in a batch, was not in the ledger,
\* and its one dispatch succeeded.
C6_Witness ==
    \E n \in Names :
        /\ qual[n] >= 2
        /\ n \notin loaded
        /\ n \in delivered
        /\ n \notin notifyFailed
        /\ cycleSends[n] = 1

\* C7: no notify call is made for a name that a successful
\* save_alerted_coins has written, in any later cycle.
C7_CrossCycleDedup ==
    last.ev \in {"sent", "notify_error"} => last.name \notin everSaved

\* C7 witness: a pair that passes every numeric check is passed over
\* because a previous cycle persisted its name.
C7_Witness ==
    /\ last.ev = "skip_alerted"
    /\ last.name \in everSaved
    /\ last.name \in loaded
    /\ cycleSends[last.name] = 0

\* C8: a name in the persisted ledger stays in it after every later step.
C8_LedgerMonotone == [][Persisted \subseteq Persisted']_vars

\* C9: at most one execution of check_new_coins is in progress, and a
\* handler served while a cycle is in progress calls nothing of the cycle
\* (ledger, filter, send_alert).
C9_SingleWorker ==
    /\ Cardinality(workers) <= 1
    /\ (handler # "none" /\ "task" \in workers) =>
           HandlerCalls(handler) \cap CoreCalls = {}

\* C9 witness: the /test handler is being served while the task awaits a
\* send_alert whose name is not yet in alerted_coins.
C9_Witness ==
    /\ handler = "test"
    /\ pc = "loop"
    /\ workers = {"task"}
    /\ sending # NoCoin
    /\ cycleSends[sending] = 1
    /\ sending \notin alerted

\* C10: every cycle, however it ends, returns the poller to its sleep, and
\* every sleep is followed by a further cycle.
C10_AlwaysAnotherCycle ==
    /\ [](pc \in {"cycle", "loop"} => <>(pc = "sleep"))
    /\ [](pc = "sleep" => <>(pc = "cycle"))

\* C10 witness: the poller is asleep after a cycle that ended in an error.
C10_Witness ==
    /\ pc = "sleep"
    /\ last.ev \in {"load_error", "fetch_error", "pair_error", "save_error"}

\* The latest step dispatched send_alert for the pair in seen.
Dispatched == last.ev \in {"sent", "notify_error"}
\* The age of the pair in seen, in milliseconds.
SeenAgeMs == current_time - seen.pairCreatedAt
\* The pair in seen has a timestamp and an age from 0 to the limit.
SeenAgeWithin ==
    /\ seen.pairCreatedAt # 0
    /\ SeenAgeMs >= 0
    /\ SeenAgeMs <= MaxAgeMinutes * MsPerMinute

\* C11: a pair created after the cycle's current time (negative age) is
\* not alerted, whatever its volume.
C11_FutureNeverAlerted ==
    (seen # NoPair /\ seen.pairCreatedAt > current_time) => ~Dispatched

\* C12: a pair whose 24h volume equals the threshold is not alerted, and a
\* pair one cent above it, of an age from 0 to the limit, is: it is
\* dispatched in its cycle unless the ledger held its name.
C12_VolumeExclusive ==
    /\ (seen # NoPair /\ seen.volKind = "number"
            /\ seen.h24 = MinVolume * CentsPerUsd) => ~Dispatched
    /\ (seen # NoPair /\ seen.volKind = "number"
            /\ seen.h24 = MinVolume * CentsPerUsd + 1 /\ SeenAgeWithin) =>
           (seen.name \in loaded \/ cycleSends[seen.name] = 1)

\* C12 witness: a ten minutes old pair of a name not yet alerted, with a
\* volume equal to the threshold, has been passed over.
C12_Witness ==
    /\ seen # NoPair
    /\ seen.h24 = MinVolume * CentsPerUsd
    /\ SeenAgeMs = 10 * MsPerMinute
    /\ seen.name \notin alerted
    /\ last.ev = "skip_filter"

\* C13: a pair whose age equals the limit, with a volume above the
\* threshold, is alerted (dispatched in its cycle unless the ledger held
\* its name), and a pair older than the limit is not.
C13_AgeInclusive ==
    /\ (seen # NoPair /\ seen.pairCreatedAt # 0
            /\ SeenAgeMs = MaxAgeMinutes * MsPerMinute
            /\ seen.volKind = "number"
            /\ seen.h24 > MinVolume * CentsPerUsd) =>
           (seen.name \in loaded \/ cycleSends[seen.name] = 1)
    /\ (seen # NoPair /\ seen.pairCreatedAt # 0
            /\ SeenAgeMs > MaxAgeMinutes * MsPerMinute) => ~Dispatched

\* C13 witness: a pair exactly as old as the limit has been dispatched.
C13_Witness ==
    /\ seen # NoPair
    /\ SeenAgeMs = MaxAgeMinutes * MsPerMinute
    /\ last.ev = "sent"
    /\ cycleSends[seen.name] = 1

\* C14: an iteration over a pair of the target network whose creation
\* timestamp is absent, null or zero ends at the timestamp test: no notify
\* call, nothing added to the ledger, whatever the volume.
C14_NoTimestampNoAlert ==
    [][(seen' # NoPair /\ seen'.pairCreatedAt = 0) =>
          /\ last'.ev = "skip_no_timestamp"
          /\ dispatches' = dispatches
          /\ cycleSends' = cycleSends
          /\ alerted' = alerted
          /\ file' = file]_vars

\* C14 witness: a pair without timestamp and with a volume above the
\* threshold has been passed over.
C14_Witness ==
    /\ seen # NoPair
    /\ seen.pairCreatedAt = 0
    /\ seen.h24 > MinVolume * CentsPerUsd
    /\ seen.name \notin alerted
    /\ ~Dispatched

\* C15: what load_alerted_coins returns right after a save_alerted_coins(S)
\* that returned is S, whatever the order list(S) had and whatever
\* characters the names hold, and a cycle that finds no file starts from
\* the empty set.
C15_LedgerRoundTrip ==
    /\ [][(last'.ev = "saved" /\ last' # last) =>
             /\ ~LoadRaises(file')
             /\ load_alerted_coins(file') = alerted]_vars
    /\ [][(pc = "cycle" /\ file.kind = "absent" /\ pc' = "loop") =>
             (alerted' = {} /\ loaded' = {})]_vars

\* C15 witness: a cycle has read back a file that holds two names, one
\* written with an escaped quotation mark and one with an escaped backslash
\* and a \u escape, in the order opposite to that of the names.
C15_Witness ==
    /\ pc = "loop"
    /\ last.ev = "fetched"
    /\ file.kind = "json"
    /\ Len(file.items) = 2
    /\ file.items[1] = <<"\"", "B", "\\", "\\", "\\", "u", "0", "0", "e", "9", "\"">>
    /\ file.items[2] = <<"\"", "A", "\\", "\"", "\"">>
    /\ loaded = {"A", "B"}
    /\ alerted = {"A", "B"}

\* C16: a cycle that finds the ledger file unreadable goes on with an empty
\* set: its first step is the fetch, not the end of the cycle.
C16_CorruptReadAsEmpty ==
    [][(pc = "cycle" /\ file.kind = "corrupt" /\ pc' # "cycle") =>
          last'.ev \in {"fetched", "fetch_error"}]_vars

\* C17: after a cycle whose fetch succeeded and whose dispatches all
\* succeeded, every name that passed the checks and was not in the ledger
\* got exactly one notify call, and the persisted ledger is the ledger at
\* the start of the cycle united with the names notified (stated here for
\* the cycles whose ledger write did not fail).
C17_CycleNotifiesAndPersists ==
    (pc = "sleep" /\ last.ev \in {"saved", "pair_error"} /\ notifyFailed = {}) =>
        /\ \A n \in Names :
               (qual[n] >= 1 /\ n \notin loaded) => cycleSends[n] = 1
        /\ Persisted = loaded \cup SentThisCycle

\* C18: at the end of a cycle whose fetch succeeded, every name whose
\* dispatch succeeded in the cycle is in the persisted ledger, also when a
\* later pair of the batch raised (stated here for the cycles whose ledger
\* write did not fail).
C18_SentNamesPersisted ==
    (pc = "sleep" /\ last.ev \in {"saved", "pair_error"}) =>
        (SentThisCycle \ notifyFailed) \subseteq Persisted

\* C19: evaluating a pair never raises: no iteration of the for loop ends
\* the cycle with an exception.
C19_EvaluationNeverRaises == last.ev # "pair_error"

\* C20: when the initial test_bot_connection fails, run_bot_periodically
\* returns: no cycle has run or runs afterwards, and the ledger is never
\* read or written.
C20_StartupGate ==
    /\ [](last.ev = "boot_failed" =>
             /\ pc = "stopped"
             /\ file = NoFile
             /\ loaded = {}
             /\ everSaved = {}
             /\ dispatches = Zero)
    /\ [][pc = "stopped" => (pc' = "stopped" /\ file' = file)]_vars

\* C20 witness: the gate has failed and the task has returned.
C20_Witness == pc = "stopped" /\ last.ev = "boot_failed" /\ workers = {}

====
